---- MODULE Spec2Model ----
(***************************************************************************)
(* A model of builder/scrape_and_build.mjs: the build script that reads a  *)
(* published sheet of links, scrapes title/description/image for each     *)
(* link (cheerio first, Puppeteer when no image was found), rehosts the    *)
(* image on Cloudinary and writes dist/data.json, dist/products.csv and    *)
(* dist/index.html.                                                        *)
(*                                                                         *)
(* A JavaScript string is a sequence of one-character strings; the empty   *)
(* sequence stands for every falsy string-like value (the empty string, an *)
(* absent attribute, undefined), which the script only ever tests with     *)
(* `||` and `!`.                                                           *)
(***************************************************************************)
EXTENDS Integers, Sequences, FiniteSets, TLC

(***************************************************************************)
(* String primitives                                                       *)
(***************************************************************************)

\* The characters matched by \s in the regular expressions and removed by
\* String.prototype.trim.
Whitespace == {" ", "\t", "\n"}

\* The character class [.,;:!?-] of shorten's trailing-punctuation strip.
Punct == {".", ",", ";", ":", "!", "?", "-"}

\* The one-character ellipsis U+2026 appended by shorten.
ELLIPSIS == "U+2026"

SetMax(S) == CHOOSE m \in S : \A k \in S : k <= m

SetMin(S) == CHOOSE m \in S : \A k \in S : m <= k

\* s.replace(/\s+/g, ' '): every maximal run of whitespace becomes one space.
CollapseWs(s) ==
  LET marked == [i \in 1..Len(s) |->
                   [c    |-> IF s[i] \in Whitespace THEN " " ELSE s[i],
                    more |-> s[i] \in Whitespace /\ i < Len(s) /\ s[i + 1] \in Whitespace]]
      kept   == SelectSeq(marked, LAMBDA m : ~m.more)
  IN  [i \in 1..Len(kept) |-> kept[i].c]

\* s.trim()
Trim(s) ==
  LET keep == {i \in 1..Len(s) : s[i] \notin Whitespace}
  IN  IF keep = {} THEN <<>> ELSE SubSeq(s, SetMin(keep), SetMax(keep))

\* s.lastIndexOf(c): the 0-based index of the last c, -1 when there is none.
LastIndexOf(s, c) ==
  LET at == {i \in 1..Len(s) : s[i] = c}
  IN  IF at = {} THEN -1 ELSE SetMax(at) - 1

\* s.slice(n) where s.slice(0, n) was meant: what follows the first n characters
Slice0_from(s, n) == SubSeq(s, (IF n < Len(s) THEN n ELSE Len(s)) + 1, Len(s))

\* s.slice(0, n) for n >= 0
Slice0(s, n) == SubSeq(s, 1, IF n < Len(s) THEN n ELSE Len(s))

\* s.replace(/[.,;:!?-]+$/, '')
StripTrailingPunct(s) ==
  LET keep == {i \in 1..Len(s) : s[i] \notin Punct}
  IN  IF keep = {} THEN <<>> ELSE SubSeq(s, 1, SetMax(keep))

\* s.startsWith(p)
StartsWith(s, p) == Len(s) >= Len(p) /\ SubSeq(s, 1, Len(p)) = p

\* the pattern p occurs somewhere in s
Contains(s, p) == \E i \in 1..(Len(s) - Len(p) + 1) : SubSeq(s, i, i + Len(p) - 1) = p

\* s.replace(/[-_]/g, ' ')
DashesToSpaces(s) == [i \in 1..Len(s) |-> IF s[i] \in {"-", "_"} THEN " " ELSE s[i]]

\* s.split('/').pop(): what follows the last slash (all of s when it has none).
LastSegment(s) == SubSeq(s, LastIndexOf(s, "/") + 2, Len(s))

\* a || b on strings
Or(a, b) == IF a # <<>> THEN a ELSE b

\* n copies of the string w, one after the other
RECURSIVE Repeat(_, _)
Repeat(w, n) == IF n = 0 THEN <<>> ELSE w \o Repeat(w, n - 1)

(***************************************************************************)
(* Program constants                                                       *)
(***************************************************************************)

\* shorten's default limit (the `limit = 120` parameter default).
DEFAULT_LIMIT == 120

\* shorten cuts at the last space only when it lies beyond this index.
MIN_WORD_CUT == 60

\* The default description of both extractors.
DEFAULT_DESC ==
  <<"P","r","o","f","e","s","s","i","o","n","a","l"," ","p","r","e","s","e","n","t","a","t","i",
    "o","n"," ","t","e","m","p","l","a","t","e"," ","w","i","t","h"," ","m","o","d","e","r","n",
    ","," ","e","d","i","t","a","b","l","e"," ","s","l","i","d","e","s",".">>

\* process.env.CLOUDINARY_CLOUD of the modelled run.
CLOUDINARY_CLOUD ==
  <<"d","e","m","o">>

\* The placeholder image URL main substitutes when the upload gave nothing.
PLACEHOLDER ==
  <<"h","t","t","p","s",":","/","/","r","e","s",".","c","l","o","u","d","i","n","a","r","y",".","c","o","m","/">>
  \o CLOUDINARY_CLOUD \o
  <<"/","i","m","a","g","e","/","u","p","l","o","a","d","/","c","_","f","i","l","l",",","w","_",
    "1","2","0","0",",","h","_","8","0","0",",","f","_","a","u","t","o",",","q","_","a","u","t",
    "o","/","v","1","/","h","t","t","p","s",":","/","/","p","l","a","c","e","h","o","l","d",".",
    "c","o","/","1","2","0","0","x","8","0","0","/","j","p","g">>

\* The fragments of the image heuristics' regular expressions.
UPLOADS_PATH ==
  <<"w","p","-","c","o","n","t","e","n","t","/","u","p","l","o","a","d","s">>

HTTP ==
  <<"h","t","t","p",":","/","/">>

HTTPS ==
  <<"h","t","t","p","s",":","/","/">>

HTTPS_COLON ==
  <<"h","t","t","p","s",":">>

\* The sibling-walk guard of the rendered extractor's "About" collection.
ABOUT_GUARD == 20

\* The value of `err` while nothing was thrown out of main.
NONE == "none"

(***************************************************************************)
(* Pure functions of the script                                            *)
(***************************************************************************)

\* shorten without `if (clean.length <= limit) return clean`
shorten_noEarlyReturn(text, limit) ==
  IF text = <<>> THEN <<>>
  ELSE LET clean     == Trim(CollapseWs(text))
           cutoff    == IF limit - 1 > 0 THEN limit - 1 ELSE 0
           slice     == Slice0(clean, cutoff)
           lastSpace == LastIndexOf(slice, " ")
           cut       == IF lastSpace > MIN_WORD_CUT THEN Slice0(slice, lastSpace) ELSE slice
       IN  StripTrailingPunct(cut) \o <<ELLIPSIS>>

\* shorten(text, limit)
shorten(text, limit) ==
  IF text = <<>> THEN <<>>
  ELSE LET clean == Trim(CollapseWs(text))
       IN  IF Len(clean) <= limit THEN clean
           ELSE LET cutoff    == IF limit - 1 > 0 THEN limit - 1 ELSE 0
                    slice     == Slice0(clean, cutoff)
                    lastSpace == LastIndexOf(slice, " ")
                    cut       == IF lastSpace > MIN_WORD_CUT
                                 THEN Slice0(slice, lastSpace) ELSE slice
                IN  StripTrailingPunct(cut) \o <<ELLIPSIS>>

\* r['Link'] || r['link'] || r['URL'] || r['url'] || '', trimmed
RowLink(r) == Trim(Or(r.Link, Or(r.link, Or(r.URL, r.url))))

\* a dedupe that keeps the last occurrence of a link, not the first
RECURSIVE Dedupe_keepLast(_)
Dedupe_keepLast(s) ==
  IF s = <<>> THEN <<>>
  ELSE IF \E i \in 2..Len(s) : s[i] = Head(s)
       THEN Dedupe_keepLast(Tail(s))
       ELSE <<Head(s)>> \o Dedupe_keepLast(Tail(s))

\* Array.from(new Set(links)): first occurrences, in order.
RECURSIVE Dedupe(_)
Dedupe(s) ==
  IF s = <<>> THEN <<>>
  ELSE LET init == Dedupe(SubSeq(s, 1, Len(s) - 1))
           last == s[Len(s)]
       IN  IF \E i \in 1..Len(init) : init[i] = last THEN init ELSE Append(init, last)

\* parseLinks, on the rows csv-parse returns
RECURSIVE MapRowLink(_)
MapRowLink(rows) ==
  IF rows = <<>> THEN <<>> ELSE <<RowLink(Head(rows))>> \o MapRowLink(Tail(rows))

parseLinks(rows) == Dedupe(SelectSeq(MapRowLink(rows), LAMBDA l : l # <<>>))

\* candidates.find(...): the element at the least of the positions `at`,
\* nothing when there is none
FirstAt(s, at) == IF at = {} THEN <<>> ELSE s[SetMin(at)]

\* /wp-content\/uploads/.test(u)
IsUploads(u) == Contains(u, UPLOADS_PATH)

\* /^https?:\/\//.test(u)
IsAbsolute(u) == StartsWith(u, HTTP) \/ StartsWith(u, HTTPS)

\* el.attr('src') || el.attr('data-src') of every img element
RECURSIVE ImgSources(_)
ImgSources(imgs) ==
  IF imgs = <<>> THEN <<>>
  ELSE <<Or(Head(imgs).src, Head(imgs).dataSrc)>> \o ImgSources(Tail(imgs))

\* an extractor that leaves a protocol-relative image as it is
FixProtocol_none(image) == image

\* if (image && image.startsWith('//')) image = 'https:' + image
FixProtocol(image) ==
  IF image # <<>> /\ StartsWith(image, <<"/", "/">>) THEN HTTPS_COLON \o image ELSE image

\* the text of the elements after the "About" heading, run together (cheerio .text())
RECURSIVE Concat(_)
Concat(blocks) == IF blocks = <<>> THEN <<>> ELSE Head(blocks) \o Concat(Tail(blocks))

\* the same text as the rendered extractor's sibling walk collects it:
\* a space before each block
RECURSIVE ConcatSpaced(_)
ConcatSpaced(blocks) ==
  IF blocks = <<>> THEN <<>> ELSE <<" ">> \o Head(blocks) \o ConcatSpaced(Tail(blocks))

\* A catch block that returns empty fields throughout.
FallbackMeta_blank == [title |-> <<>>, description |-> <<>>, image |-> <<>>]

\* The meta both extractors return from their catch blocks.
FallbackMeta == [title |-> <<>>, description |-> DEFAULT_DESC, image |-> <<>>]

\* main's meta before the first extractor returned: nothing yet
NoMeta == [title |-> <<>>, description |-> <<>>, image |-> <<>>]

\* scrapeWithCheerio returning the description without shortening it
CheerioMeta_unshortened(page) ==
  LET title == Or(Trim(page.h1), Or(page.ogTitle, Trim(page.titleEl)))
      desc  == Or(Trim(CollapseWs(Concat(page.about))), Or(page.metaDesc, page.ogDesc))
      srcs  == ImgSources(page.imgs)
      image == Or(page.ogImage,
                  Or(page.imageSrc,
                     FirstAt(srcs, {i \in 1..Len(srcs) :
                                      IsUploads(srcs[i]) \/ IsAbsolute(srcs[i])})))
  IN  [title       |-> title,
       description |-> Or(desc, DEFAULT_DESC),
       image       |-> FixProtocol(image)]

\* scrapeWithCheerio's try block, on the document cheerio loaded
CheerioMeta(page) ==
  LET title == Or(Trim(page.h1), Or(page.ogTitle, Trim(page.titleEl)))
      desc  == Or(Trim(CollapseWs(Concat(page.about))), Or(page.metaDesc, page.ogDesc))
      srcs  == ImgSources(page.imgs)
      image == Or(page.ogImage,
                  Or(page.imageSrc,
                     FirstAt(srcs, {i \in 1..Len(srcs) :
                                      IsUploads(srcs[i]) \/ IsAbsolute(srcs[i])})))
  IN  [title       |-> title,
       description |-> shorten(Or(desc, DEFAULT_DESC), DEFAULT_LIMIT),
       image       |-> FixProtocol(image)]

\* scrapeWithPuppeteer's try block up to the page.close(), on the rendered document
PuppeteerMeta(page) ==
  LET title == Or(Trim(page.h1), Or(page.ogTitle, Trim(CollapseWs(page.titleEl))))
      meta  == Or(page.metaDesc, page.ogDesc)
      desc  == IF meta = <<>> /\ page.about # <<>>
               THEN Trim(CollapseWs(ConcatSpaced(Slice0(page.about, ABOUT_GUARD))))
               ELSE meta
      srcs  == ImgSources(page.imgs)
      image == Or(page.ogImage,
                  Or(FirstAt(srcs, {i \in 1..Len(srcs) : IsUploads(srcs[i])}),
                     FirstAt(srcs, {i \in 1..Len(srcs) : IsAbsolute(srcs[i])})))
  IN  [title       |-> title,
       description |-> shorten(Or(desc, DEFAULT_DESC), DEFAULT_LIMIT),
       image       |-> FixProtocol(image)]

\* meta.title || url.split('/').pop().replace(/[-_]/g, ' ')
ItemTitle(meta, url) == Or(meta.title, DashesToSpaces(LastSegment(url)))

\* main without the placeholder substitution
FinalImage_raw(img) == img

\* if (!img) img = placeholder
FinalImage(img) == IF img = <<>> THEN PLACEHOLDER ELSE img

\* main testing the title where it should test the image
NeedsRendered_title(meta) == meta.title = <<>>

\* if (!meta.image): main falls back to the rendered extractor
NeedsRendered(meta) == meta.image = <<>>

(***************************************************************************)
(* The environment: sheets, pages and provider answers                     *)
(***************************************************************************)

\* The longest sheet the model reads.
MaxRows == 2

URL_A == <<"h","t","t","p","s",":","/","/","s",".","i","o","/","a","-","b">>

URL_B == <<"h","t","t","p","s",":","/","/","s",".","i","o","/","c","_","d","/">>

EmptyRow == [Link |-> <<>>, link |-> <<>>, URL |-> <<>>, url |-> <<>>]

\* The rows a sheet is made of: a Link cell, a padded url cell, a blank row.
SheetRows ==
  { [EmptyRow EXCEPT !.Link = URL_A],
    [EmptyRow EXCEPT !.url = <<" ">> \o URL_B \o <<" ">>],
    EmptyRow }

Sheets == UNION {[1..n -> SheetRows] : n \in 0..MaxRows}

IMG_REL == <<"/","/","c",".","i","o","/","i",".","p","n","g">>

IMG_ABS == <<"h","t","t","p","s",":","/","/","c",".","i","o","/","j",".","p","n","g">>

IMG_UPLOADS == <<"/","w","p","-","c","o","n","t","e","n","t","/","u","p","l","o","a","d","s","/","k",".","p","n","g">>

IMG_LOCAL == <<"i","m","g","/","l",".","p","n","g">>

\* secure_url of the remote-fetch upload and of the stream upload.
HOSTED_PRIMARY == <<"h","t","t","p","s",":","/","/","r","e","s",".","c","l","o","u","d","i","n","a","r","y",".","c","o","m","/","d","e","m","o","/","p",".","j","p","g">>

HOSTED_STREAM == <<"h","t","t","p","s",":","/","/","r","e","s",".","c","l","o","u","d","i","n","a","r","y",".","c","o","m","/","d","e","m","o","/","q",".","j","p","g">>

T_H1 == <<" ", "D", "e", "c", "k", " ">>

T_OG == <<"O", "g">>

T_DOC == <<"D", "o", "c">>

D_META == <<"G", "o", "o", "d", ",", " ", "d", "e", "c", "k">>

D_OG == <<"O", "g", " ", "d", "e", "s", "c">>

\* a description that is nothing but whitespace
D_BLANK == <<" ", " ">>

\* a description longer than DEFAULT_LIMIT
D_LONG == Repeat(<<"w", "o", "r", "d", ",", " ">>, 22)

ABOUT_BLOCKS == << <<"N", "i", "c", "e", "\n">>, <<"d", "e", "c", "k", ".">> >>

NoImg == [src |-> <<>>, dataSrc |-> <<>>]

EmptyPage ==
  [h1 |-> <<>>, ogTitle |-> <<>>, titleEl |-> <<>>,
   about |-> <<>>, metaDesc |-> <<>>, ogDesc |-> <<>>,
   ogImage |-> <<>>, imageSrc |-> <<>>, imgs |-> <<>>]

\* The documents a link may serve, to the HTTP fetch and to the browser alike.
Pages ==
  { EmptyPage,
    [EmptyPage EXCEPT !.h1 = T_H1, !.ogTitle = T_OG, !.titleEl = T_DOC,
                      !.about = ABOUT_BLOCKS, !.metaDesc = D_META, !.ogDesc = D_OG,
                      !.ogImage = IMG_ABS, !.imageSrc = IMG_LOCAL],
    [EmptyPage EXCEPT !.ogTitle = T_OG, !.ogDesc = D_OG, !.ogImage = IMG_REL],
    [EmptyPage EXCEPT !.titleEl = T_DOC, !.metaDesc = D_BLANK],
    [EmptyPage EXCEPT !.titleEl = T_DOC, !.metaDesc = D_LONG,
                      !.imgs = << [NoImg EXCEPT !.src = IMG_LOCAL],
                                  [NoImg EXCEPT !.dataSrc = IMG_ABS],
                                  [NoImg EXCEPT !.src = IMG_UPLOADS] >>],
    [EmptyPage EXCEPT !.h1 = T_H1, !.about = ABOUT_BLOCKS] }

(***************************************************************************)
(* State                                                                   *)
(***************************************************************************)

VARIABLES
  pc,        \* where the script is: the await (or call) it is at
  env,       \* which of the required environment variables are set
  csv,       \* main's csv: the rows of the fetched sheet
  links,     \* main's links
  idx,       \* the position in links of the url the for loop is at
  items,     \* main's items
  meta,      \* main's meta
  doc,       \* the document scrapeWithPuppeteer read them from
  scraped,   \* scrapeWithPuppeteer's title, description and image
  img,       \* main's img: what uploadToCloudinary returned
  browser,   \* the shared browser: "none", "open" or "closed"
  launches,  \* how many times puppeteer.launch succeeded
  pages,     \* how many pages of the browser are open
  written,   \* the files of dist/ written, in order
  err,       \* what threw the error that ended the run, NONE when nothing did
  exitCode,  \* the process's exit code, -1 while it runs
  log,       \* what was called and what it gave, in order
  call       \* a call of one of the pure functions on its own: arguments and results

vars == <<pc, env, csv, links, idx, items, meta, doc, scraped, img, browser, launches,
          pages, written, err, exitCode, log, call>>

\* an entry of the log; page and got are filled by the extractors' entries only
Entry(op, val, ok, page, got) ==
  [op |-> op, link |-> idx, val |-> val, ok |-> ok, page |-> page, got |-> got]

Event(op, val, ok) == Entry(op, val, ok, EmptyPage, NoMeta)

\* an extractor's entry: the document it read and the meta it made of it
Extracted(op, page, got) == Entry(op, got.image, TRUE, page, got)

\* no pure function is called on its own
NoCall == [fn |-> "none", text |-> <<>>, limit |-> 0, rows |-> <<>>,
           out |-> <<>>, again |-> <<>>, at |-> "idle"]

\* main's variables before main runs
Fresh ==
  /\ csv = <<>>
  /\ links = <<>>
  /\ idx = 0
  /\ items = <<>>
  /\ meta = NoMeta
  /\ doc = EmptyPage
  /\ scraped = NoMeta
  /\ img = <<>>
  /\ browser = "none"
  /\ launches = 0
  /\ pages = 0
  /\ written = <<>>
  /\ err = NONE
  /\ exitCode = -1
  /\ log = <<>>

Init ==
  /\ pc = "boot"
  /\ env \in {"ok", "no_sheet_url", "no_cloudinary"}
  /\ call = NoCall
  /\ Fresh

\* An error nobody catches: main().catch logs it and calls process.exit(1); at
\* module level the process dies of the uncaught exception, with exit code 1 too.
Throw(what) ==
  /\ pc' = "exit"
  /\ err' = what
  /\ exitCode' = 1

(***************************************************************************)
(* Module level and main up to the loop                                    *)
(***************************************************************************)

ConfigOk ==
  /\ pc = "boot"
  /\ env = "ok"
  /\ pc' = "fetch_sheet"
  /\ UNCHANGED <<call, doc, env, csv, links, idx, items, meta, scraped, img, browser, launches,
                 pages, written, err, exitCode, log>>

ConfigMissing ==
  /\ pc = "boot"
  /\ env # "ok"
  /\ Throw("config")
  /\ UNCHANGED <<call, doc, env, csv, links, idx, items, meta, scraped, img, browser, launches,
                 pages, written, log>>

\* main without `if (!links.length) throw`
FetchSheetOk_noCheck ==
  /\ pc = "fetch_sheet"
  /\ \E rows \in Sheets :
       /\ csv' = rows
       /\ links' = parseLinks(rows)
  /\ pc' = "launch"
  /\ UNCHANGED <<call, doc, env, idx, items, meta, scraped, img, browser, launches, pages,
                 written, err, exitCode, log>>

\* fetchSheetCsv resolves; parseLinks; the empty-list check; puppeteer.launch is called
FetchSheetOk ==
  /\ pc = "fetch_sheet"
  /\ \E rows \in Sheets :
       /\ csv' = rows
       /\ links' = parseLinks(rows)
       /\ IF links' = <<>>
          THEN Throw("no_links")
          ELSE pc' = "launch" /\ UNCHANGED <<err, exitCode>>
  /\ UNCHANGED <<call, doc, env, idx, items, meta, scraped, img, browser, launches, pages,
                 written, log>>

FetchSheetFail ==
  /\ pc = "fetch_sheet"
  /\ Throw("fetch_sheet")
  /\ UNCHANGED <<call, doc, env, csv, links, idx, items, meta, scraped, img, browser, launches,
                 pages, written, log>>

\* puppeteer.launch resolves; the loop starts: scrapeWithCheerio(links[0]) is called
LaunchOk ==
  /\ pc = "launch"
  /\ browser' = "open"
  /\ launches' = launches + 1
  /\ idx' = 1
  /\ pc' = "static"
  /\ UNCHANGED <<call, doc, env, csv, links, items, meta, scraped, img, pages, written, err,
                 exitCode, log>>

LaunchFail ==
  /\ pc = "launch"
  /\ Throw("launch")
  /\ UNCHANGED <<call, doc, env, csv, links, idx, items, meta, scraped, img, browser, launches,
                 pages, written, log>>

(***************************************************************************)
(* scrapeWithCheerio                                                       *)
(***************************************************************************)

\* scrapeWithCheerio without its try/catch: the error reaches main
StaticCatch_rethrow ==
  /\ Throw("scrapeWithCheerio")
  /\ UNCHANGED <<meta, log>>

\* what scrapeWithCheerio's catch block does with an error of its try block
StaticCatch ==
  /\ meta' = FallbackMeta
  /\ pc' = "static_done"
  /\ log' = Append(log, Event("static", <<>>, FALSE))
  /\ UNCHANGED <<err, exitCode>>

\* axios.get resolves and the fields are extracted
StaticOk ==
  /\ pc = "static"
  /\ \E page \in Pages :
       /\ meta' = CheerioMeta(page)
       /\ log' = Append(log, Extracted("static", page, meta'))
  /\ pc' = "static_done"
  /\ UNCHANGED <<call, doc, env, csv, links, idx, items, scraped, img, browser, launches, pages,
                 written, err, exitCode>>

\* axios.get rejects: network error, timeout, non-2xx status
StaticFetchFail ==
  /\ pc = "static"
  /\ StaticCatch
  /\ UNCHANGED <<call, doc, env, csv, links, idx, items, scraped, img, browser, launches, pages,
                 written>>

\* axios.get resolves, cheerio.load or a selector throws
StaticParseFail ==
  /\ pc = "static"
  /\ StaticCatch
  /\ UNCHANGED <<call, doc, env, csv, links, idx, items, scraped, img, browser, launches, pages,
                 written>>

(***************************************************************************)
(* main between the extractors and the upload                              *)
(***************************************************************************)

\* uploadToCloudinary without `if (!imageUrl) return ''`
CallUpload_noGuard(imageUrl) ==
  /\ pc' = "primary"
  /\ log' = Append(log, Event("rehost_call", imageUrl, TRUE))
  /\ UNCHANGED img

\* uploadToCloudinary(imageUrl) up to its first await: `if (!imageUrl) return ''`,
\* else cloudinary.uploader.upload is called
CallUpload(imageUrl) ==
  IF imageUrl = <<>>
  THEN /\ img' = <<>>
       /\ pc' = "upload_done"
       /\ log' = log \o <<Event("rehost_call", imageUrl, TRUE), Event("rehost", <<>>, TRUE)>>
  ELSE /\ pc' = "primary"
       /\ log' = Append(log, Event("rehost_call", imageUrl, TRUE))
       /\ UNCHANGED img

\* scrapeWithCheerio returned: `if (!meta.image)` calls scrapeWithPuppeteer, which
\* calls browser.newPage(); otherwise uploadToCloudinary(meta.image) is called
AfterStatic ==
  /\ pc = "static_done"
  /\ IF NeedsRendered(meta)
     THEN /\ pc' = "new_page"
          /\ log' = Append(log, Event("rendered_call", <<>>, TRUE))
          /\ UNCHANGED img
     ELSE CallUpload(meta.image)
  /\ UNCHANGED <<call, doc, env, csv, links, idx, items, meta, scraped, browser, launches, pages,
                 written, err, exitCode>>

\* scrapeWithPuppeteer returned: uploadToCloudinary(meta.image) is called
AfterRendered ==
  /\ pc = "rendered_done"
  /\ CallUpload(meta.image)
  /\ UNCHANGED <<call, doc, env, csv, links, idx, items, meta, scraped, browser, launches, pages,
                 written, err, exitCode>>

(***************************************************************************)
(* scrapeWithPuppeteer                                                     *)
(***************************************************************************)

NewPageOk ==
  /\ pc = "new_page"
  /\ pages' = pages + 1
  /\ pc' = "set_user_agent"
  /\ UNCHANGED <<call, doc, env, csv, links, idx, items, meta, scraped, img, browser, launches,
                 written, err, exitCode, log>>

\* browser.newPage() rejects, outside the try block
NewPageFail ==
  /\ pc = "new_page"
  /\ Throw("newPage")
  /\ UNCHANGED <<call, doc, env, csv, links, idx, items, meta, scraped, img, browser, launches,
                 pages, written, log>>

SetUserAgentOk ==
  /\ pc = "set_user_agent"
  /\ pc' = "goto"
  /\ UNCHANGED <<call, doc, env, csv, links, idx, items, meta, scraped, img, browser, launches,
                 pages, written, err, exitCode, log>>

\* page.setUserAgent rejects, outside the try block: nothing closes the page
SetUserAgentFail ==
  /\ pc = "set_user_agent"
  /\ Throw("setUserAgent")
  /\ UNCHANGED <<call, doc, env, csv, links, idx, items, meta, scraped, img, browser, launches,
                 pages, written, log>>

GotoOk ==
  /\ pc = "goto"
  /\ pc' = "settle"
  /\ UNCHANGED <<call, doc, env, csv, links, idx, items, meta, scraped, img, browser, launches,
                 pages, written, err, exitCode, log>>

\* an error inside the try block: the catch block calls page.close()
RenderedCatch ==
  /\ pc' = "catch_close"
  /\ UNCHANGED <<call, doc, env, csv, links, idx, items, meta, scraped, img, browser, launches,
                 pages, written, err, exitCode, log>>

GotoFail ==
  /\ pc = "goto"
  /\ RenderedCatch

\* page.waitForTimeout(1200)
SettleOk ==
  /\ pc = "settle"
  /\ pc' = "extract"
  /\ UNCHANGED <<call, doc, env, csv, links, idx, items, meta, scraped, img, browser, launches,
                 pages, written, err, exitCode, log>>

SettleFail ==
  /\ pc = "settle"
  /\ RenderedCatch

\* the field extraction; page.close() of the try block is called
ExtractOk ==
  /\ pc = "extract"
  /\ \E page \in Pages :
       /\ doc' = page
       /\ scraped' = PuppeteerMeta(page)
  /\ pc' = "page_close"
  /\ UNCHANGED <<call, env, csv, links, idx, items, meta, img, browser, launches, pages,
                 written, err, exitCode, log>>

\* page.title(), page.$x or page.evaluate rejects
ExtractFail ==
  /\ pc = "extract"
  /\ RenderedCatch

\* page.close() of the try block resolves: return { title, description, image }
PageCloseOk ==
  /\ pc = "page_close"
  /\ pages' = pages - 1
  /\ meta' = scraped
  /\ pc' = "rendered_done"
  /\ log' = Append(log, Extracted("rendered", doc, scraped))
  /\ UNCHANGED <<call, doc, env, csv, links, idx, items, scraped, img, browser, launches, written,
                 err, exitCode>>

PageCloseFail ==
  /\ pc = "page_close"
  /\ RenderedCatch

\* a catch block that returns without closing the page
CatchCloseOk_leak ==
  /\ pc = "catch_close"
  /\ meta' = FallbackMeta
  /\ pc' = "rendered_done"
  /\ log' = Append(log, Event("rendered", <<>>, FALSE))
  /\ UNCHANGED <<call, doc, env, csv, links, idx, items, scraped, img, browser, launches,
                 pages, written, err, exitCode>>

\* a main that keeps the static title and description when the rendered extractor fails
CatchCloseOk_keepStatic ==
  /\ pc = "catch_close"
  /\ pages' = pages - 1
  /\ meta' = [meta EXCEPT !.image = <<>>]
  /\ pc' = "rendered_done"
  /\ log' = Append(log, Event("rendered", <<>>, FALSE))
  /\ UNCHANGED <<call, doc, env, csv, links, idx, items, scraped, img, browser, launches,
                 written, err, exitCode>>

\* page.close() of the catch block resolves: return the fallback meta
CatchCloseOk ==
  /\ pc = "catch_close"
  /\ pages' = pages - 1
  /\ meta' = FallbackMeta
  /\ pc' = "rendered_done"
  /\ log' = Append(log, Event("rendered", <<>>, FALSE))
  /\ UNCHANGED <<call, doc, env, csv, links, idx, items, scraped, img, browser, launches, written,
                 err, exitCode>>

\* page.close() of the catch block rejects: the error leaves scrapeWithPuppeteer
CatchCloseFail ==
  /\ pc = "catch_close"
  /\ Throw("pageClose")
  /\ UNCHANGED <<call, doc, env, csv, links, idx, items, meta, scraped, img, browser, launches,
                 pages, written, log>>

(***************************************************************************)
(* uploadToCloudinary                                                      *)
(***************************************************************************)

\* uploadToCloudinary returns url to main
UploadReturn(url, events) ==
  /\ img' = url
  /\ pc' = "upload_done"
  /\ log' = log \o events \o <<Event("rehost", url, TRUE)>>

\* cloudinary.uploader.upload resolves: return res.secure_url
PrimaryOk ==
  /\ pc = "primary"
  /\ UploadReturn(HOSTED_PRIMARY, <<Event("primary", HOSTED_PRIMARY, TRUE)>>)
  /\ UNCHANGED <<call, doc, env, csv, links, idx, items, meta, scraped, browser, launches, pages,
                 written, err, exitCode>>

\* a catch block that tries the remote-fetch upload again
PrimaryFail_retry ==
  /\ pc = "primary"
  /\ pc' = "primary"
  /\ log' = Append(log, Event("primary", <<>>, FALSE))
  /\ UNCHANGED <<call, doc, env, csv, links, idx, items, meta, scraped, img, browser, launches,
                 pages, written, err, exitCode>>

\* cloudinary.uploader.upload rejects: the catch block fetches the image itself
PrimaryFail ==
  /\ pc = "primary"
  /\ pc' = "fallback_get"
  /\ log' = Append(log, Event("primary", <<>>, FALSE))
  /\ UNCHANGED <<call, doc, env, csv, links, idx, items, meta, scraped, img, browser, launches,
                 pages, written, err, exitCode>>

\* axios.get of the image resolves: upload_stream is given the bytes
FallbackGetOk ==
  /\ pc = "fallback_get"
  /\ pc' = "fallback_stream"
  /\ UNCHANGED <<call, doc, env, csv, links, idx, items, meta, scraped, img, browser, launches,
                 pages, written, err, exitCode, log>>

\* axios.get of the image rejects: return ''
FallbackGetFail ==
  /\ pc = "fallback_get"
  /\ UploadReturn(<<>>, <<Event("fallback", <<>>, FALSE)>>)
  /\ UNCHANGED <<call, doc, env, csv, links, idx, items, meta, scraped, browser, launches, pages,
                 written, err, exitCode>>

\* upload_stream calls back with a result: return streamRes.secure_url
FallbackStreamOk ==
  /\ pc = "fallback_stream"
  /\ UploadReturn(HOSTED_STREAM, <<Event("fallback", HOSTED_STREAM, TRUE)>>)
  /\ UNCHANGED <<call, doc, env, csv, links, idx, items, meta, scraped, browser, launches, pages,
                 written, err, exitCode>>

\* upload_stream calls back with an error: return ''
FallbackStreamFail ==
  /\ pc = "fallback_stream"
  /\ UploadReturn(<<>>, <<Event("fallback", <<>>, FALSE)>>)
  /\ UNCHANGED <<call, doc, env, csv, links, idx, items, meta, scraped, browser, launches, pages,
                 written, err, exitCode>>

(***************************************************************************)
(* main after the upload                                                   *)
(***************************************************************************)

\* the placeholder, the title, items.push; then the next url, or browser.close()
Push ==
  /\ pc = "upload_done"
  /\ items' = Append(items, [title       |-> ItemTitle(meta, links[idx]),
                             description |-> meta.description,
                             image       |-> FinalImage(img),
                             url         |-> links[idx]])
  /\ log' = Append(log, Event("push", FinalImage(img), TRUE))
  /\ idx' = idx + 1
  /\ pc' = IF idx < Len(links) THEN "static" ELSE "browser_close"
  /\ UNCHANGED <<call, doc, env, csv, links, meta, scraped, img, browser, launches, pages, written,
                 err, exitCode>>

BrowserCloseOk ==
  /\ pc = "browser_close"
  /\ browser' = "closed"
  /\ pc' = "write"
  /\ UNCHANGED <<call, doc, env, csv, links, idx, items, meta, scraped, img, launches, pages,
                 written, err, exitCode, log>>

BrowserCloseFail ==
  /\ pc = "browser_close"
  /\ Throw("browserClose")
  /\ UNCHANGED <<call, doc, env, csv, links, idx, items, meta, scraped, img, browser, launches,
                 pages, written, log>>

\* the files writeArtifacts writes, in its order
ARTIFACTS == <<"data.json", "products.csv", "index.html">>

\* writeArtifacts writes the three files; main returns
WriteOk ==
  /\ pc = "write"
  /\ written' = ARTIFACTS
  /\ pc' = "done"
  /\ exitCode' = 0
  /\ UNCHANGED <<call, doc, env, csv, links, idx, items, meta, scraped, img, browser, launches,
                 pages, err, log>>

\* one of the fs.writeFileSync calls throws, after n files were written
WriteFail ==
  /\ pc = "write"
  /\ \E n \in 0..(Len(ARTIFACTS) - 1) : written' = SubSeq(ARTIFACTS, 1, n)
  /\ Throw("write")
  /\ UNCHANGED <<call, doc, env, csv, links, idx, items, meta, scraped, img, browser, launches,
                 pages, log>>

Next ==
  \/ ConfigOk \/ ConfigMissing
  \/ FetchSheetOk \/ FetchSheetFail
  \/ LaunchOk \/ LaunchFail
  \/ StaticOk \/ StaticFetchFail \/ StaticParseFail
  \/ AfterStatic \/ AfterRendered
  \/ NewPageOk \/ NewPageFail
  \/ SetUserAgentOk \/ SetUserAgentFail
  \/ GotoOk \/ GotoFail
  \/ SettleOk \/ SettleFail
  \/ ExtractOk \/ ExtractFail
  \/ PageCloseOk \/ PageCloseFail
  \/ CatchCloseOk \/ CatchCloseFail
  \/ PrimaryOk \/ PrimaryFail
  \/ FallbackGetOk \/ FallbackGetFail
  \/ FallbackStreamOk \/ FallbackStreamFail
  \/ Push
  \/ BrowserCloseOk \/ BrowserCloseFail
  \/ WriteOk \/ WriteFail

Spec == Init /\ [][Next]_vars

(***************************************************************************)
(* The pure functions on their own: shorten                                *)
(***************************************************************************)

\* The longest of the short texts, and the greatest of the small limits.
MaxLen == 3

MaxLimit == 4

\* The strings of at most n characters over a letter, a space, a tab and a dot.
RECURSIVE TextsUpTo(_)
TextsUpTo(n) ==
  IF n = 0 THEN {<<>>}
  ELSE LET shorter == TextsUpTo(n - 1)
       IN  shorter \cup {Append(s, c) : s \in shorter, c \in {"a", " ", "\t", "."}}

\* Texts around shorten's word-boundary index: a long word, a short text, and
\* either nothing or enough to pass the limit.
LongTexts ==
  {Repeat(<<"a">>, p) \o m \o Repeat(<<"b">>, q) :
     p \in (MIN_WORD_CUT - 1)..(MIN_WORD_CUT + 2), m \in TextsUpTo(MaxLen), q \in {0, 70}}

\* shorten's arguments: short texts with small limits, long texts with limits
\* beyond the word-boundary index.
ShortenArgs ==
  (TextsUpTo(MaxLen) \X (0..MaxLimit)) \cup (LongTexts \X {MIN_WORD_CUT + 4, DEFAULT_LIMIT})

InitShorten ==
  /\ pc = "pure"
  /\ env = "ok"
  /\ Fresh
  /\ \E a \in ShortenArgs :
       call = [NoCall EXCEPT !.fn = "shorten", !.text = a[1], !.limit = a[2], !.at = "called"]

\* shorten(text, limit)
ShortenCall ==
  /\ call.fn = "shorten" /\ call.at = "called"
  /\ call' = [call EXCEPT !.out = shorten(call.text, call.limit), !.at = "returned"]
  /\ UNCHANGED <<pc, env, csv, links, idx, items, meta, doc, scraped, img, browser,
                 launches, pages, written, err, exitCode, log>>

\* shorten(out, limit), on what the first call returned
ShortenAgain ==
  /\ call.fn = "shorten" /\ call.at = "returned"
  /\ call' = [call EXCEPT !.again = shorten(call.out, call.limit), !.at = "twice"]
  /\ UNCHANGED <<pc, env, csv, links, idx, items, meta, doc, scraped, img, browser,
                 launches, pages, written, err, exitCode, log>>

NextShorten == ShortenCall \/ ShortenAgain

SpecShorten == InitShorten /\ [][NextShorten]_vars

(***************************************************************************)
(* The pure functions on their own: parseLinks                             *)
(***************************************************************************)

\* The longest row list parseLinks is called with.
MaxSheet == 3

\* The rows of those lists: the rows of the sheets, a row with a lower-case link
\* column, and a row whose Link cell is blank while its URL cell is not.
ParseRows ==
  SheetRows \cup { [EmptyRow EXCEPT !.link = URL_B],
                   [EmptyRow EXCEPT !.Link = <<" ">>, !.URL = URL_A] }

InitParseLinks ==
  /\ pc = "pure"
  /\ env = "ok"
  /\ Fresh
  /\ \E rows \in UNION {[1..n -> ParseRows] : n \in 0..MaxSheet} :
       call = [NoCall EXCEPT !.fn = "parseLinks", !.rows = rows, !.at = "called"]

\* parseLinks(csv)
ParseLinksCall ==
  /\ call.fn = "parseLinks" /\ call.at = "called"
  /\ call' = [call EXCEPT !.out = parseLinks(call.rows), !.at = "returned"]
  /\ UNCHANGED <<pc, env, csv, links, idx, items, meta, doc, scraped, img, browser,
                 launches, pages, written, err, exitCode, log>>

NextParseLinks == ParseLinksCall

SpecParseLinks == InitParseLinks /\ [][NextParseLinks]_vars

(***************************************************************************)
(* Reading the log                                                         *)
(***************************************************************************)

\* the events of link i, in order
EventsOf(i) == SelectSeq(log, LAMBDA e : e.link = i)

\* the positions in ev of the events of kind op
At(ev, op) == {k \in 1..Len(ev) : ev[k].op = op}

\* the run has ended
Ended == pc \in {"done", "exit"}

\* the awaits of scrapeWithPuppeteer after browser.newPage() resolved
InRendered == pc \in {"set_user_agent", "goto", "settle", "extract", "page_close", "catch_close"}

(***************************************************************************)
(* Claims                                                                  *)
(***************************************************************************)

\* C1: whatever fails for single links (static fetch or parse, page creation or
\* navigation, primary and fallback upload), a run over a non-empty link list that
\* got its browser ends without an error of the per-link stages and with exactly
\* one item per link, in order, item i carrying links[i].
C1_OneItemPerLink ==
  (Ended /\ links # <<>> /\ err # "launch")
    => /\ err \in {NONE, "browserClose", "write"}
       /\ Len(items) = Len(links)
       /\ \A i \in 1..Len(links) : items[i].url = links[i]

\* C2: once a call of scrapeWithPuppeteer is over, by return or by error, the
\* page it opened is closed: no page is open outside the call.
C2_PageClosedOnEveryExit == ~InRendered => pages = 0

\* C3: a run launches at most one browser, and no run ends with its browser open.
C3_BrowserClosedAtEnd == launches <= 1 /\ (Ended => browser # "open")

\* C4: scrapeWithPuppeteer never throws: no run is ended by an error of
\* browser.newPage, page.setUserAgent or page.close.
C4_RenderedNeverThrows == err \notin {"newPage", "setUserAgent", "pageClose"}

\* C5: the description an extractor returns, and so the description of every
\* item, is never the empty string.
C5_DescriptionNeverEmpty ==
  /\ pc \in {"static_done", "rendered_done"} => meta.description # <<>>
  /\ \A i \in 1..Len(items) : items[i].description # <<>>

\* what uploadToCloudinary returned for link i
Rehosted(i) == LET ev == EventsOf(i) IN ev[SetMax(At(ev, "rehost"))].val

\* C6: every item's image is non-empty: the URL uploadToCloudinary returned,
\* or the placeholder when it returned the empty string.
C6_ImageNeverEmpty ==
  \A i \in 1..Len(items) :
    /\ items[i].image # <<>>
    /\ items[i].image = IF Rehosted(i) = <<>> THEN PLACEHOLDER ELSE Rehosted(i)

C6_Witness ==
  /\ Len(items) = 2
  /\ Rehosted(1) = <<>> /\ items[1].image = PLACEHOLDER
  /\ Rehosted(2) = HOSTED_STREAM /\ items[2].image = HOSTED_STREAM

\* main has decided, for link i, whether to call the rendered extractor
Decided(i) == i < idx \/ (i = idx /\ pc \notin {"static", "static_done"})

\* C7: for each link the static extractor runs first; the rendered extractor is
\* called if and only if the static one returned an empty image; when called, it
\* has returned before the upload is called and before the item is appended.
C7_RenderedIffNoStaticImage ==
  \A i \in 1..Len(links) :
    LET ev == EventsOf(i) IN
      /\ ev # <<>> => ev[1].op = "static"
      /\ Decided(i) => (At(ev, "rendered_call") # {} <=> ev[1].val = <<>>)
      /\ \A j \in At(ev, "rendered_call") :
           /\ j = 2
           /\ \A k \in At(ev, "rehost_call") \cup At(ev, "push") :
                \E r \in At(ev, "rendered") : j < r /\ r < k

C7_Witness ==
  /\ Len(items) = 2
  /\ At(EventsOf(1), "rendered_call") # {} /\ EventsOf(1)[1].val = <<>>
  /\ At(EventsOf(2), "rendered_call") = {} /\ EventsOf(2)[1].val # <<>>

\* C8: uploadToCloudinary never throws and never retries: for a non-empty image
\* URL the remote-fetch upload is tried once, the fallback at most once and only
\* after the remote-fetch upload failed, and what it returns is the first URL if
\* the first upload succeeded, else the fallback's URL if that succeeded, else ''.
C8_RehostOnceEach ==
  /\ err # "uploadToCloudinary"
  /\ \A i \in 1..Len(links) :
       LET ev       == EventsOf(i)
           primary  == At(ev, "primary")
           fallback == At(ev, "fallback")
       IN  \A c \in At(ev, "rehost_call") :
             ev[c].val # <<>> =>
               /\ Cardinality(primary) <= 1
               /\ Cardinality(fallback) <= 1
               /\ \A f \in fallback : \E q \in primary : q < f /\ ~ev[q].ok
               /\ \A r \in At(ev, "rehost") :
                    /\ Cardinality(primary) = 1
                    /\ \A q \in primary : c < q /\ q < r
                    /\ ev[r].val =
                         IF \E q \in primary : ev[q].ok
                         THEN ev[SetMax(primary)].val
                         ELSE IF \E f \in fallback : ev[f].ok
                              THEN ev[SetMax(fallback)].val
                              ELSE <<>>

C8_Witness ==
  /\ Len(items) = 1 /\ items[1].image = PLACEHOLDER
  /\ \E c \in At(EventsOf(1), "rehost_call") : EventsOf(1)[c].val # <<>>
  /\ pc = "upload_done" /\ img = HOSTED_STREAM

\* the extractor op caught an error for link i and returned from its catch block
Failed(i, op) == \E k \in At(EventsOf(i), op) : ~EventsOf(i)[k].ok

\* C9: the item of a link for which both extractors failed and the upload gave
\* nothing has the placeholder as image and the default sentence as description.
C9_TotalFailureItem ==
  \A i \in 1..Len(items) :
    (Failed(i, "static") /\ Failed(i, "rendered") /\ Rehosted(i) = <<>>)
      => items[i].image = PLACEHOLDER /\ items[i].description = DEFAULT_DESC

C9_Witness ==
  /\ Len(items) = 1
  /\ Failed(1, "static") /\ Failed(1, "rendered") /\ Rehosted(1) = <<>>
  /\ items[1].image = PLACEHOLDER

\* C10: scrapeWithCheerio never throws: on an error of the fetch or of the
\* extraction it returns exactly {title: '', description: DEFAULT_DESC, image: ''}.
C10_StaticNeverThrows ==
  /\ err # "scrapeWithCheerio"
  /\ (pc = "static_done" /\ ~log[Len(log)].ok)
       => /\ meta.title = <<>>
          /\ meta.description = DEFAULT_DESC
          /\ meta.image = <<>>

C10_Witness ==
  /\ pc = "static_done"
  /\ ~log[Len(log)].ok
  /\ meta.description = DEFAULT_DESC

\* C11: a run ends with all three artifacts written or with none, and no
\* artifact is written before every link has its item.
C11_AllOrNothing ==
  /\ Ended => written \in {<<>>, ARTIFACTS}
  /\ written # <<>> => (links # <<>> /\ Len(items) = Len(links))

\* C12: a fetched sheet without links ends the run at once with exit code 1:
\* no browser is launched, no extractor or upload is called, nothing is written.
C12_EmptyListFailsFast ==
  (pc \notin {"boot", "fetch_sheet"} /\ err \notin {"config", "fetch_sheet"} /\ links = <<>>)
    => /\ pc = "exit" /\ err = "no_links" /\ exitCode # 0 /\ exitCode # -1
       /\ browser = "none" /\ launches = 0 /\ pages = 0
       /\ log = <<>> /\ items = <<>> /\ written = <<>>

C12_Witness == err = "no_links" /\ csv # <<>> /\ exitCode = 1 /\ browser = "none"

\* a string with no whitespace at its ends and no whitespace but single spaces
Normalised(s) ==
  \A i \in 1..Len(s) :
    s[i] \in Whitespace => s[i] = " " /\ 1 < i /\ i < Len(s) /\ s[i + 1] \notin Whitespace

\* C13 as stated: shorten(s, n) is at most n + 1 long and is s itself when
\* len(s) <= n.
C13_ShortInputUnchanged ==
  (call.fn = "shorten" /\ call.at = "returned")
    => /\ Len(call.out) <= call.limit + 1
       /\ Len(call.text) <= call.limit => call.out = call.text

\* C13, amended: shorten(s, n) is at most n + 1 long and is s itself when
\* len(s) <= n and s is whitespace-normalised already.
C13_ShortNormalisedInputUnchanged ==
  (call.fn = "shorten" /\ call.at = "returned")
    => /\ Len(call.out) <= call.limit + 1
       /\ (Len(call.text) <= call.limit /\ Normalised(call.text)) => call.out = call.text

C13_Witness ==
  /\ call.fn = "shorten" /\ call.at = "returned"
  /\ call.text = <<"a", " ", "a">> /\ call.limit = Len(call.text)
  /\ call.out = call.text

\* the static extractor's entries for documents with an og:image and an og:title
OgEntries ==
  {k \in 1..Len(log) : /\ log[k].op = "static" /\ log[k].ok
                       /\ log[k].page.ogImage # <<>> /\ log[k].page.ogTitle # <<>>}

\* main did not call the rendered extractor for link i
NotRendered(i) == Decided(i) /\ At(EventsOf(i), "rendered_call") = {}

\* C14 as stated: from a document with an og:image and an og:title the static
\* extractor returns that og:title and that og:image, whatever else the document
\* holds, and main does not call the rendered extractor for the link.
C14_OgTitleAndImage ==
  \A k \in OgEntries :
    /\ log[k].got.title = log[k].page.ogTitle
    /\ log[k].got.image = log[k].page.ogImage
    /\ Decided(log[k].link) => NotRendered(log[k].link)

\* C14, amended: the title is the trimmed text of the first h1 when that is not
\* empty and the og:title otherwise; the image is the og:image, a
\* protocol-relative one prefixed with https:; the rendered extractor is not called.
C14_OgImageAndTitleUnlessHeading ==
  \A k \in OgEntries :
    LET page == log[k].page IN
      /\ log[k].got.title = IF Trim(page.h1) # <<>> THEN Trim(page.h1) ELSE page.ogTitle
      /\ log[k].got.image = IF StartsWith(page.ogImage, <<"/", "/">>)
                            THEN <<"h", "t", "t", "p", "s", ":">> \o page.ogImage
                            ELSE page.ogImage
      /\ Decided(log[k].link) => NotRendered(log[k].link)

C14_Witness ==
  \E k \in OgEntries :
    /\ log[k].page.h1 = <<>> /\ log[k].got.title = T_OG
    /\ log[k].page.ogImage = IMG_REL
    /\ NotRendered(log[k].link) /\ Len(items) >= log[k].link

\* the first row of the list whose link is v
FirstRow(rows, v) == SetMin({i \in 1..Len(rows) : RowLink(rows[i]) = v})

\* C15: parseLinks returns the trimmed non-empty links of the rows without
\* repetition, each at the place of its first occurrence.
C15_DedupeKeepsFirstSeenOrder ==
  (call.fn = "parseLinks" /\ call.at = "returned")
    => LET rows == call.rows
           out  == call.out
       IN  /\ \A j, k \in 1..Len(out) : out[j] = out[k] => j = k
           /\ {out[k] : k \in 1..Len(out)}
                = {RowLink(rows[i]) : i \in 1..Len(rows)} \ {<<>>}
           /\ \A j, k \in 1..Len(out) :
                j < k => FirstRow(rows, out[j]) < FirstRow(rows, out[k])

C15_Witness ==
  /\ call.fn = "parseLinks" /\ call.at = "returned"
  /\ call.rows = << [EmptyRow EXCEPT !.Link = URL_A],
                    [EmptyRow EXCEPT !.Link = URL_A],
                    [EmptyRow EXCEPT !.url = <<" ">> \o URL_B \o <<" ">>] >>
  /\ call.out = <<URL_A, URL_B>>

\* the text an extractor's entry took the description from, whitespace-normalised
SourceText(e) ==
  LET page == e.page
      raw  == IF e.op = "static"
              THEN Or(Trim(CollapseWs(Concat(page.about))), Or(page.metaDesc, page.ogDesc))
              ELSE IF Or(page.metaDesc, page.ogDesc) # <<>>
                   THEN Or(page.metaDesc, page.ogDesc)
                   ELSE ConcatSpaced(Slice0(page.about, ABOUT_GUARD))
  IN  Trim(CollapseWs(raw))

\* the entry of the extractor whose meta main used for link i
UsedEntry(i) ==
  LET ev == EventsOf(i) IN ev[SetMax(At(ev, "static") \cup At(ev, "rendered"))]

\* C16: no item's description is longer than 120 characters, and a description
\* made of a longer normalised source text ends with the ellipsis.
C16_DescriptionWithinBudget ==
  \A i \in 1..Len(items) :
    LET d == items[i].description
        e == UsedEntry(i)
    IN  /\ Len(d) <= DEFAULT_LIMIT
        /\ \/ d # <<>> /\ d[Len(d)] = ELLIPSIS
           \/ ~(e.ok /\ Len(SourceText(e)) > DEFAULT_LIMIT)

C16_Witness ==
  /\ Len(items) = 1
  /\ UsedEntry(1).ok /\ Len(SourceText(UsedEntry(1))) > DEFAULT_LIMIT
  /\ items[1].description[Len(items[1].description)] = ELLIPSIS

\* C17: the run does one thing at a time: at most one page is open, and only
\* inside scrapeWithPuppeteer; the log goes link by link, and every event of a
\* link comes after the push of every earlier link.
C17_OneAtATime ==
  /\ pages <= 1
  /\ pages = 1 => (InRendered \/ pc = "exit")
  /\ \A b \in 1..Len(log) :
       /\ b > 1 => log[b - 1].link <= log[b].link
       /\ \A i \in 1..(log[b].link - 1) :
            \E a \in 1..(b - 1) : log[a].op = "push" /\ log[a].link = i

C17_Witness == pages = 1 /\ idx = 2 /\ Len(items) = 1 /\ pc = "goto"

\* C18: once main has called the rendered extractor, the item's title and
\* description are the rendered extractor's alone: when it failed, the
\* URL-derived title and the default description, whatever the static one found.
C18_StaticResultDiscarded ==
  \A i \in 1..Len(items) :
    At(EventsOf(i), "rendered_call") # {} =>
      LET r       == UsedEntry(i)
          derived == DashesToSpaces(LastSegment(links[i]))
      IN  /\ r.op = "rendered"
          /\ ~r.ok => items[i].title = derived /\ items[i].description = DEFAULT_DESC
          /\ r.ok => /\ items[i].title = IF r.got.title # <<>> THEN r.got.title ELSE derived
                     /\ items[i].description = r.got.description

C18_Witness ==
  /\ Len(items) = 1
  /\ EventsOf(1)[1].ok /\ EventsOf(1)[1].got.title = <<"D", "e", "c", "k">>
  /\ EventsOf(1)[1].got.description # DEFAULT_DESC
  /\ Failed(1, "rendered")
  /\ items[1].title # <<"D", "e", "c", "k">> /\ items[1].description = DEFAULT_DESC

\* C19: uploadToCloudinary('') returns '' at once: no upload and no fetch is made
\* for the link, and its item gets the placeholder.
C19_EmptyImageNoUpload ==
  /\ pc \in {"primary", "fallback_get", "fallback_stream"} => meta.image # <<>>
  /\ \A i \in 1..Len(links) :
       LET ev == EventsOf(i) IN
         \A c \in At(ev, "rehost_call") :
           ev[c].val = <<>> =>
             /\ At(ev, "primary") = {} /\ At(ev, "fallback") = {}
             /\ c < Len(ev) /\ ev[c + 1].op = "rehost" /\ ev[c + 1].val = <<>>
             /\ i <= Len(items) => items[i].image = PLACEHOLDER

C19_Witness ==
  /\ Len(items) = 1 /\ items[1].image = PLACEHOLDER
  /\ EventsOf(1)[1].ok /\ EventsOf(1)[1].val = <<>>
  /\ UsedEntry(1).op = "rendered" /\ UsedEntry(1).ok /\ UsedEntry(1).val = <<>>

\* C20: shorten(shorten(s, n), n) = shorten(s, n).
C20_ShortenIdempotent ==
  (call.fn = "shorten" /\ call.at = "twice") => call.again = call.out

C20_Witness ==
  /\ call.fn = "shorten" /\ call.at = "twice"
  /\ call.limit = DEFAULT_LIMIT /\ Len(call.text) > DEFAULT_LIMIT
  /\ call.out # call.text /\ call.again = call.out

====
